---------------------------- MODULE Spec2Model ----------------------------
(***************************************************************************)
(* A model of prefect/core/task.py: Task construction and invocation       *)
(* (argument binding, flow resolution, edge creation), the Parameter task  *)
(* with its locked name/slug, and TaskResult.                              *)
(*                                                                         *)
(* Python values are modelled as follows.  None is the string NoneVal.     *)
(* Objects live in heaps indexed by small naturals (params, tasks, flows,  *)
(* results, colls); an object's identity is its index.  The ambient        *)
(* context is a function whose domain is the set of keys currently set.    *)
(***************************************************************************)
EXTENDS Integers, Sequences, FiniteSets, Bags, TLC

VARIABLES
    context,    \* prefect.context: a mapping from the keys that are set
    params,     \* heap of Parameter objects
    pres,       \* the last operation on a Parameter and its outcome
    tasks,      \* heap of Task objects (sequence, in construction order)
    flows,      \* heap of Flow objects (sequence, in construction order)
    results,    \* heap of TaskResult objects (sequence, in construction order)
    userFlows,  \* how many Flow objects the caller has constructed
    colls,      \* heap of the tag collections the caller holds (mutable)
    received,   \* what the last operation passed to Flow.set_dependencies
    last        \* the last operation on a task and its outcome

vars == <<context, params, pres, tasks, flows, results, userFlows, colls,
          received, last>>

paramVars == <<params, pres>>
graphVars == <<tasks, flows, results, userFlows, colls, received, last>>

\* ------------------------------------------------------------------ bounds

MaxParams == 2      \* Parameter objects
MaxFlows == 1       \* Flow objects the caller constructs
MaxResults == 2     \* TaskResult objects
MaxArgs == 3        \* positional arguments of one invocation
OwnedResults == 1   \* TaskResults that are given dependencies
TagTasks == 1       \* tasks constructed with tags and a group
MaxColls == 2       \* tag collections the caller builds
IndexTasks == 1     \* tasks the caller constructs before subscripting results
MaxEdges == 1       \* edges of a flow a TaskResult is given dependencies in

\* ------------------------------------------------------------ Python values

NoneVal == "None"
NoExc == "none"

\* Names a Parameter is constructed or assigned with ("" is falsy).
Names == {"", "x", "y"}
\* Values found in the ambient parameter mapping.
ParamValues == {"7"}
\* Defaults a Parameter is constructed with ("" is falsy but not None).
Defaults == {NoneVal, "", "5"}

\* bool(v) of a string or None
Truthy(v) == v /= "" /\ v /= NoneVal

\* ----------------------------------------------------------------- context

\* prefect.context.get(key, default)
context_get(key, default) ==
    IF key \in DOMAIN context THEN context[key] ELSE default

\* The mapping m without key k, and m with k bound to v.
Without(m, k) == [x \in DOMAIN m \ {k} |-> m[x]]
With(m, k, v) == [x \in DOMAIN m \cup {k} |-> IF x = k THEN v ELSE m[x]]
EmptyMap == [x \in {} |-> NoneVal]

\* Every mapping from a subset of keys to vals.
Mappings(keys, vals) == UNION {[d -> vals] : d \in SUBSET keys}

\* --------------------------------------------------------------- Parameter

PIds == 1..MaxParams

\* A Parameter object before __init__ has run: no attribute is set.
\* status: "new" (not constructed), "ok" (constructed), "failed" (__init__ raised).
NewParam ==
    [status |-> "new", hasName |-> FALSE, name_ |-> NoneVal,
     required |-> FALSE, default |-> NoneVal,
     group |-> NoneVal, tags |-> [own |-> {}]]

\* Parameter.name getter: self._name
name_get(o) == o.name_

\* Parameter.name setter.  Returns the object and the exception raised.
name_set_rebind(o, value) ==
    [obj |-> [o EXCEPT !.hasName = TRUE, !.name_ = value], exc |-> NoExc]

name_set(o, value) ==
    IF o.hasName
    THEN [obj |-> o, exc |-> "AttributeError"]
    ELSE [obj |-> [o EXCEPT !.hasName = TRUE, !.name_ = value], exc |-> NoExc]

\* Parameter.slug getter: self.name
slug_get_type_name(o) == "Parameter"

slug_get(o) == name_get(o)

\* Parameter.slug setter: nothing is stored.
slug_set_accept(o, value) == [obj |-> o, exc |-> NoExc]

slug_set(o, value) ==
    IF value /= name_get(o)
    THEN [obj |-> o, exc |-> "AttributeError"]
    ELSE [obj |-> o, exc |-> NoExc]

\* Task.__init__ as far as a Parameter's identity goes: self.name = name or
\* type(self).__name__, then self.slug = slug; an exception ends __init__.
Task_init_identity(o, name, slug) ==
    LET n == name_set(o, IF Truthy(name) THEN name ELSE "Parameter")
    IN  IF n.exc /= NoExc THEN n ELSE slug_set(n.obj, slug)

\* The required flag Parameter.__init__ stores.
init_required_truthy(default, required) ==
    IF Truthy(default) THEN FALSE ELSE required

init_required(default, required) ==
    IF default /= NoneVal THEN FALSE ELSE required

\* Parameter.run(): the value returned or the signal raised.
Parameter_run_ignore_required(o) ==
    LET ps == context_get("_parameters", EmptyMap)
    IN  IF name_get(o) \notin DOMAIN ps
        THEN [exc |-> "FAIL", value |-> NoneVal]
        ELSE [exc |-> NoExc, value |-> ps[name_get(o)]]

Parameter_run(o) ==
    LET ps == context_get("_parameters", EmptyMap)
    IN  IF o.required /\ name_get(o) \notin DOMAIN ps
        THEN [exc |-> "FAIL", value |-> NoneVal]
        ELSE [exc |-> NoExc,
              value |-> IF name_get(o) \in DOMAIN ps
                        THEN ps[name_get(o)] ELSE o.default]

NoOp == [op |-> "none"]

\* p.name = value
NameAssign(p, value) ==
    /\ params[p].status = "ok"
    /\ LET r == name_set(params[p], value)
       IN  /\ params' = [params EXCEPT ![p] = r.obj]
           /\ pres' = [op |-> "name_set", p |-> p, value |-> value,
                       nameBefore |-> name_get(params[p]),
                       slugBefore |-> slug_get(params[p]), exc |-> r.exc]
    /\ UNCHANGED <<context, graphVars>>

\* p.slug = value
SlugAssign(p, value) ==
    /\ params[p].status = "ok"
    /\ LET r == slug_set(params[p], value)
       IN  /\ params' = [params EXCEPT ![p] = r.obj]
           /\ pres' = [op |-> "slug_set", p |-> p, value |-> value,
                       nameBefore |-> name_get(params[p]),
                       slugBefore |-> slug_get(params[p]), exc |-> r.exc]
    /\ UNCHANGED <<context, graphVars>>

\* p.run()
ParameterRun(p) ==
    /\ params[p].status = "ok"
    /\ LET r == Parameter_run(params[p])
       IN  pres' = [op |-> "run", p |-> p, exc |-> r.exc, value |-> r.value,
                    ambient |-> context_get("_parameters", EmptyMap)]
    /\ UNCHANGED <<params, context, graphVars>>

\* The engine sets or clears the ambient parameter values.
SetParameters(ps) ==
    /\ context' = With(context, "_parameters", ps)
    /\ pres' = [op |-> "context"]
    /\ UNCHANGED <<params, graphVars>>

ClearParameters ==
    /\ "_parameters" \in DOMAIN context
    /\ context' = Without(context, "_parameters")
    /\ pres' = [op |-> "context"]
    /\ UNCHANGED <<params, graphVars>>

\* ------------------------------------------------------- call arguments

\* An argument value: a literal, a dict of values, or a TaskResult.
Lit(v) == [lit |-> v]
Dict(m) == [dict |-> m]
Res(r) == [res |-> r]
IsRes(v) == "res" \in DOMAIN v

Literals == {Lit("1"), Lit("2")}

\* A dict key: keys of different Python types are never equal.
StrKey(s) == [type |-> "str", v |-> s]
NoneKey == [type |-> "NoneType", v |-> NoneVal]
\* An inspect.Parameter object used as a key.
ParamKey(p) == [type |-> "Parameter", v |-> p.name]

\* dict.pop(key, default) on a dict with str keys: the value and the dict left.
dict_pop(d, key, default) ==
    IF key.type = "str" /\ key.v \in DOMAIN d
    THEN [value |-> d[key.v], rest |-> Without(d, key.v)]
    ELSE [value |-> default, rest |-> d]

\* dict.update(other)
dict_update(d, other) ==
    [k \in DOMAIN d \cup DOMAIN other |->
        IF k \in DOMAIN other THEN other[k] ELSE d[k]]

\* The run signatures of the Task subclasses modelled: inspect.Parameter
\* objects in declaration order (self is bound and not part of the signature).
POSITIONAL_OR_KEYWORD == "POSITIONAL_OR_KEYWORD"
VAR_KEYWORD == "VAR_KEYWORD"

Param(name, kind, hasDefault) ==
    [name |-> name, kind |-> kind, hasDefault |-> hasDefault]

\* def run(self)
SigNone == <<>>
\* def run(self, a, b=1)
SigAB == <<Param("a", POSITIONAL_OR_KEYWORD, FALSE),
           Param("b", POSITIONAL_OR_KEYWORD, TRUE)>>
\* def run(self, a, **rest)
SigARest == <<Param("a", POSITIONAL_OR_KEYWORD, FALSE),
              Param("rest", VAR_KEYWORD, FALSE)>>

Signatures == {SigNone, SigAB, SigARest}

\* Keyword names an invocation is written with.
KwNames == {"a", "b", "x", "y"}

Min(a, b) == IF a < b THEN a ELSE b

\* The positions of the parameters of a kind.
OfKind(sig, kind) == {i \in 1..Len(sig) : sig[i].kind = kind}

\* signature.bind(*args, **kwargs): the exception raised or the arguments
\* mapping (parameter name -> value; the surplus keywords, when there are
\* any, as one dict under the VAR_KEYWORD parameter's name).
bind_partial(sig, args, kwargs) ==
    LET pos == OfKind(sig, POSITIONAL_OR_KEYWORD)
        npos == Cardinality(pos)
        nargs == Len(args)
        byPos == {sig[i].name : i \in 1..Min(nargs, npos)}
        byKw == {sig[i].name : i \in pos} \cap DOMAIN kwargs
        surplus == DOMAIN kwargs \ {sig[i].name : i \in pos}
        varkw == OfKind(sig, VAR_KEYWORD)
        tooMany == nargs > npos
        multiple == byPos \cap byKw /= {}
        missing == FALSE
        unexpected == surplus /= {} /\ varkw = {}
        named == [n \in byPos \cup byKw |->
                    IF n \in byPos
                    THEN args[CHOOSE i \in 1..npos : sig[i].name = n]
                    ELSE kwargs[n]]
    IN  IF tooMany \/ multiple \/ missing \/ unexpected
        THEN [exc |-> "TypeError", arguments |-> EmptyMap]
        ELSE [exc |-> NoExc,
              arguments |->
                 IF surplus /= {} /\ varkw /= {}
                 THEN With(named, sig[CHOOSE i \in varkw : TRUE].name,
                           Dict([k \in surplus |-> kwargs[k]]))
                 ELSE named]

bind(sig, args, kwargs) ==
    LET pos == OfKind(sig, POSITIONAL_OR_KEYWORD)
        npos == Cardinality(pos)
        nargs == Len(args)
        byPos == {sig[i].name : i \in 1..Min(nargs, npos)}
        byKw == {sig[i].name : i \in pos} \cap DOMAIN kwargs
        surplus == DOMAIN kwargs \ {sig[i].name : i \in pos}
        varkw == OfKind(sig, VAR_KEYWORD)
        tooMany == nargs > npos
        multiple == byPos \cap byKw /= {}
        missing == \E i \in pos :
                      /\ i > nargs
                      /\ ~sig[i].hasDefault
                      /\ sig[i].name \notin DOMAIN kwargs
        unexpected == surplus /= {} /\ varkw = {}
        named == [n \in byPos \cup byKw |->
                    IF n \in byPos
                    THEN args[CHOOSE i \in 1..npos : sig[i].name = n]
                    ELSE kwargs[n]]
    IN  IF tooMany \/ multiple \/ missing \/ unexpected
        THEN [exc |-> "TypeError", arguments |-> EmptyMap]
        ELSE [exc |-> NoExc,
              arguments |->
                 IF surplus /= {} /\ varkw /= {}
                 THEN With(named, sig[CHOOSE i \in varkw : TRUE].name,
                           Dict([k \in surplus |-> kwargs[k]]))
                 ELSE named]

\* var_kw_arg of Task.__call__: the VAR_KEYWORD inspect.Parameter object of
\* the signature, or None.
var_kw_arg(sig) ==
    IF OfKind(sig, VAR_KEYWORD) = {} THEN NoneKey
    ELSE ParamKey(sig[CHOOSE i \in OfKind(sig, VAR_KEYWORD) : TRUE])

\* callargs of Task.__call__ once bind has succeeded:
\* callargs.update(callargs.pop(var_kw_arg, {}))
expand_callargs(sig, arguments) ==
    LET popped == dict_pop(arguments, var_kw_arg(sig), Dict(EmptyMap))
    IN  dict_update(popped.rest, popped.value.dict)

\* -------------------------------------------------------------------- Flow

NoFlow == 0

\* Flow(): no tasks, no edges.
EmptyFlow == [tasks |-> EmptyBag, edges |-> {}]

Edge(up, down, key) == [upstream_task |-> up, downstream_task |-> down, key |-> key]

\* Flow.add_task(task): idempotent.
Flow_add_task(f, t) ==
    IF BagIn(t, f.tasks) THEN f
    ELSE [f EXCEPT !.tasks = @ (+) SetToBag({t})]

RECURSIVE Flow_add_tasks(_, _)
Flow_add_tasks(f, ts) ==
    IF ts = {} THEN f
    ELSE LET t == CHOOSE x \in ts : TRUE
         IN  Flow_add_tasks(Flow_add_task(f, t), ts \ {t})

\* Whether the edges hold a cycle (what Flow validation rejects).
RECURSIVE Closure(_, _)
Closure(R, n) ==
    IF n = 0 THEN R
    ELSE Closure(R \cup {<<e[1], g[2]>> : <<e, g>> \in
                                {q \in R \X R : q[1][2] = q[2][1]}},
                 n - 1)

Cyclic(edges) ==
    LET R == {<<e.upstream_task, e.downstream_task>> : e \in edges}
    IN  \E p \in Closure(R, Cardinality(R)) : p[1] = p[2]

\* TaskResult.__init__(task, flow) on the heaps fs (flows) and rs (results):
\* the heaps afterwards and the new TaskResult's index.
TaskResult_init_no_check(fs, rs, task, flow) ==
    LET fs1 == IF flow = NoFlow THEN Append(fs, EmptyFlow) ELSE fs
        f == IF flow = NoFlow THEN Len(fs1) ELSE flow
    IN  [flows |-> [fs1 EXCEPT ![f].tasks = @ (+) SetToBag({task})],
         results |-> Append(rs, [task |-> task, flow |-> f]),
         result |-> Len(rs) + 1]

TaskResult_init_no_add(fs, rs, task, flow) ==
    LET fs1 == IF flow = NoFlow THEN Append(fs, EmptyFlow) ELSE fs
        f == IF flow = NoFlow THEN Len(fs1) ELSE flow
    IN  [flows |-> fs1,
         results |-> Append(rs, [task |-> task, flow |-> f]),
         result |-> Len(rs) + 1]

TaskResult_init(fs, rs, task, flow) ==
    LET fs1 == IF flow = NoFlow THEN Append(fs, EmptyFlow) ELSE fs
        f == IF flow = NoFlow THEN Len(fs1) ELSE flow
    IN  [flows |-> [fs1 EXCEPT ![f] = Flow_add_task(@, task)],
         results |-> Append(rs, [task |-> task, flow |-> f]),
         result |-> Len(rs) + 1]

\* The edges Flow.set_dependencies creates for a task.
NewEdges(rs, task, upstream_tasks, downstream_tasks, keyword_results) ==
    {Edge(u, task, NoneVal) : u \in upstream_tasks}
    \cup {Edge(task, d, NoneVal) : d \in downstream_tasks}
    \cup {Edge(rs[keyword_results[k].res].task, task, k) :
             k \in {x \in DOMAIN keyword_results : IsRes(keyword_results[x])}}

\* Flow.set_dependencies(task, upstream_tasks, downstream_tasks,
\* keyword_results, validate) of flow f: a TaskResult for (task, f), then the
\* edges with their end points added as nodes.
Flow_set_dependencies(fs, rs, f, task, upstream_tasks, downstream_tasks, keyword_results, validate) ==
    LET r == TaskResult_init(fs, rs, task, f)
        es == NewEdges(rs, task, upstream_tasks, downstream_tasks, keyword_results)
        ends == {e.upstream_task : e \in es} \cup {e.downstream_task : e \in es}
    IN  [exc |-> NoExc,
         flows |-> [r.flows EXCEPT ![f] =
                       [Flow_add_tasks(@, ends) EXCEPT !.edges = @ \cup es]],
         results |-> r.results,
         result |-> r.result,
         received |-> [flow |-> f, task |-> task,
                       upstream_tasks |-> upstream_tasks,
                       downstream_tasks |-> downstream_tasks,
                       keyword_results |-> keyword_results,
                       validate |-> validate]]

\* -------------------------------------------------------------------- Task

\* flow = prefect.context.get("_flow", Flow()): the heap and the flow.  The
\* Flow() built for the default is kept on the heap only when it is returned.
ambient_or_new(fs) ==
    IF "_flow" \in DOMAIN context
    THEN [flows |-> fs, flow |-> context["_flow"]]
    ELSE [flows |-> Append(fs, EmptyFlow), flow |-> Len(fs) + 1]

\* Task.set_dependencies(flow, upstream_tasks, downstream_tasks,
\* keyword_results, validate)
Task_set_dependencies_ambient_first(fs, rs, task, flow, upstream_tasks, downstream_tasks, keyword_results, validate) ==
    LET a == ambient_or_new(fs)
    IN  Flow_set_dependencies(a.flows, rs, a.flow, task, upstream_tasks,
                              downstream_tasks, keyword_results, validate)

Task_set_dependencies(fs, rs, task, flow, upstream_tasks, downstream_tasks, keyword_results, validate) ==
    LET a == IF flow = NoFlow THEN ambient_or_new(fs)
             ELSE [flows |-> fs, flow |-> flow]
    IN  Flow_set_dependencies(a.flows, rs, a.flow, task, upstream_tasks,
                              downstream_tasks, keyword_results, validate)

NotReceived == [op |-> "none"]

Failed(fs, rs, exc) ==
    [exc |-> exc, flows |-> fs, results |-> rs, result |-> 0,
     received |-> NotReceived]

\* Task.__call__(*args, upstream_tasks=..., **kwargs) of task on the heaps
\* ts (tasks), fs (flows) and rs (results).
Task_call_resolve_first(ts, fs, rs, task, args, upstream_tasks, kwargs) ==
    LET a == ambient_or_new(fs)
        b == bind(ts[task].run, args, kwargs)
    IN  IF b.exc /= NoExc THEN Failed(a.flows, rs, b.exc)
        ELSE LET callargs == expand_callargs(ts[task].run, b.arguments)
             IN  Task_set_dependencies(a.flows, rs, task, a.flow,
                    upstream_tasks, {}, callargs, TRUE)

Task_call(ts, fs, rs, task, args, upstream_tasks, kwargs) ==
    LET b == bind(ts[task].run, args, kwargs)
    IN  IF b.exc /= NoExc THEN Failed(fs, rs, b.exc)
        ELSE LET callargs == expand_callargs(ts[task].run, b.arguments)
                 a == ambient_or_new(fs)
             IN  Task_set_dependencies(a.flows, rs, task, a.flow,
                    upstream_tasks, {}, callargs, TRUE)

\* The last operation was op, which builds no edges.
Noted(op) ==
    /\ last' = [op |-> op]
    /\ received' = NotReceived

\* The names the tasks are constructed with, in construction order.
TaskNames == <<"A", "B">>

\* The tags argument of Task.__init__: None, one string, or a collection
\* the caller holds.
NoTags == [kind |-> "none"]
OneTag(s) == [kind |-> "str", tag |-> s]
TagsIn(c) == [kind |-> "coll", ref |-> c]

\* self.group = str(group or prefect.context.get("_group", ""))
Task_init_group(group) ==
    IF Truthy(group) THEN group ELSE context_get("_group", "")

\* self.tags = set(tags or []); self.tags.update(context.get("_tags", [])).
\* The task's tag set is a new object: the record holds its elements (own).
\* A task that kept the caller's collection would hold a reference (ref).
Task_init_tags_alias(cs, tags) ==
    LET ambient == IF "_tags" \in DOMAIN context THEN cs[context["_tags"]]
                   ELSE {}
    IN  IF tags.kind = "coll" /\ cs[tags.ref] /= {}
        THEN [colls |-> [cs EXCEPT ![tags.ref] = @ \cup ambient],
              tags |-> [ref |-> tags.ref]]
        ELSE [colls |-> cs,
              tags |-> [own |-> (IF tags.kind = "str" THEN {tags.tag} ELSE {})
                                \cup ambient]]

Task_init_tags(cs, tags) ==
    LET explicit == CASE tags.kind = "str" -> {tags.tag}
                      [] tags.kind = "coll" -> cs[tags.ref]
                      [] OTHER -> {}
        ambient == IF "_tags" \in DOMAIN context THEN cs[context["_tags"]]
                   ELSE {}
    IN  [colls |-> cs, tags |-> [own |-> explicit \cup ambient]]

\* task.tags read on the heap cs
tags_get(cs, t) ==
    IF "ref" \in DOMAIN t.tags THEN cs[t.tags.ref] ELSE t.tags.own

\* bool(flow) of a Flow object: a Flow defines neither __bool__ nor __len__.
Flow_bool(f) == TRUE

\* flow = prefect.context.get("_flow"); if flow: flow.add_task(self)
Task_init_register_nonempty(fs, t) ==
    IF "_flow" \in DOMAIN context /\ fs[context["_flow"]].tasks /= EmptyBag
    THEN [fs EXCEPT ![context["_flow"]] = Flow_add_task(@, t)]
    ELSE fs

Task_init_register(fs, t) ==
    IF "_flow" \in DOMAIN context /\ Flow_bool(fs[context["_flow"]])
    THEN [fs EXCEPT ![context["_flow"]] = Flow_add_task(@, t)]
    ELSE fs

\* Task.__init__(name=name, group=group, tags=tags) of the Task subclass cls
\* whose run has the signature sig, on the heaps ts, fs and cs (collections):
\* the heaps afterwards and the new task's index.
Task_init(ts, fs, cs, cls, name, sig, group, tags) ==
    LET tg == Task_init_tags(cs, tags)
    IN  [tasks |-> Append(ts, [name |-> IF Truthy(name) THEN name ELSE cls,
                               run |-> sig,
                               group |-> Task_init_group(group),
                               tags |-> tg.tags]),
         colls |-> tg.colls,
         flows |-> Task_init_register(fs, Len(ts) + 1),
         task |-> Len(ts) + 1]

\* A Parameter is a task: in a flow's nodes the Parameter p is the node -p
\* (the tasks of the tasks heap are the nodes above zero).
ParamNode(p) == 0 - p

\* Parameter.__init__(name, default, required) of the new object o, the
\* Parameter p, on the heaps fs and cs: required and default, then the whole
\* of Task.__init__(name=name, slug=name).  When the slug assignment raises,
\* nothing after it happens.
Parameter_init(fs, cs, p, o, name, default, required) ==
    LET o1 == [o EXCEPT !.required = init_required(default, required),
                        !.default = default]
        r == Task_init_identity(o1, name, name)
        tg == Task_init_tags(cs, NoTags)
    IN  IF r.exc /= NoExc
        THEN [obj |-> [r.obj EXCEPT !.status = "failed"], exc |-> r.exc,
              flows |-> fs, colls |-> cs]
        ELSE [obj |-> [r.obj EXCEPT !.status = "ok",
                                    !.group = Task_init_group(NoneVal),
                                    !.tags = tg.tags],
              exc |-> NoExc,
              flows |-> Task_init_register(fs, ParamNode(p)),
              colls |-> tg.colls]

\* p = Parameter(name, default, required)
ParameterInit(p, name, default, required) ==
    /\ params[p].status = "new"
    /\ \E r \in {Parameter_init(flows, colls, p, params[p], name, default, required)} :
          /\ params' = [params EXCEPT ![p] = r.obj]
          /\ flows' = r.flows
          /\ colls' = r.colls
          /\ pres' = [op |-> "init", p |-> p, name |-> name, default |-> default,
                      required |-> required, exc |-> r.exc]
    /\ UNCHANGED <<context, tasks, results, userFlows, received, last>>

\* Task(name=name, group=group, tags=tags)
TaskInit(name, sig, group, tags) ==
    /\ \E r \in {Task_init(tasks, flows, colls, "Task", name, sig, group, tags)} :
          /\ tasks' = r.tasks
          /\ flows' = r.flows
          /\ colls' = r.colls
    /\ last' = [op |-> "Task", task |-> Len(tasks) + 1, group |-> group,
                tags |-> tags]
    /\ received' = NotReceived
    /\ UNCHANGED <<context, paramVars, results, userFlows>>

\* The caller constructs a Flow.
NewFlow ==
    /\ userFlows < MaxFlows
    /\ userFlows' = userFlows + 1
    /\ flows' = Append(flows, EmptyFlow)
    /\ Noted("Flow")
    /\ UNCHANGED <<context, paramVars, tasks, results, colls>>

\* The caller enters and leaves the context of a flow (with flow: ...).
EnterFlow(f) ==
    /\ "_flow" \notin DOMAIN context
    /\ context' = With(context, "_flow", f)
    /\ Noted("enter")
    /\ UNCHANGED <<paramVars, tasks, flows, results, userFlows, colls>>

ExitFlow ==
    /\ "_flow" \in DOMAIN context
    /\ context' = Without(context, "_flow")
    /\ Noted("exit")
    /\ UNCHANGED <<paramVars, tasks, flows, results, userFlows, colls>>

\* What an operation that builds edges leaves behind.  The inputs are those
\* whose edges Flow validation accepts.
Commit(r, record) ==
    /\ Len(r.results) <= MaxResults
    /\ r.exc = NoExc => ~Cyclic(r.flows[r.received.flow].edges)
    /\ flows' = r.flows
    /\ results' = r.results
    /\ received' = r.received
    /\ last' = [record EXCEPT !.exc = r.exc, !.result = r.result]
    /\ UNCHANGED <<context, paramVars, tasks, userFlows, colls>>

Before(op, task) ==
    [op |-> op, task |-> task, exc |-> NoExc, result |-> 0,
     ambient |-> context_get("_flow", NoFlow),
     flowsBefore |-> Len(flows), resultsBefore |-> Len(results)]

\* task(*args, upstream_tasks=upstream_tasks, **kwargs)
CallTask(task, args, upstream_tasks, kwargs) ==
    \E r \in {Task_call(tasks, flows, results, task, args, upstream_tasks, kwargs)} :
        Commit(r, [args |-> args, kwargs |-> kwargs] @@ Before("call", task))

\* task.set_dependencies(flow, upstream_tasks, downstream_tasks, keyword_results)
SetDependencies(task, flow, upstream_tasks, downstream_tasks, keyword_results) ==
    \E r \in {Task_set_dependencies(flows, results, task, flow, upstream_tasks,
                                     downstream_tasks, keyword_results, TRUE)} :
        Commit(r, [flow |-> flow] @@ Before("set_dependencies", task))

\* The tags and groups found in collections, arguments and the context.
Tags == {"p", "q"}
Groups == {"g", "h"}

\* The caller builds an empty tag collection (tags = []).
NewTags ==
    /\ Len(colls) < MaxColls
    /\ colls' = Append(colls, {})
    /\ Noted("tags")
    /\ UNCHANGED <<context, paramVars, tasks, flows, results, userFlows>>

\* The holder of the collection c adds a tag to it or removes one from it.
MutateTags(c, tag) ==
    /\ colls' = [colls EXCEPT ![c] = IF tag \in @ THEN @ \ {tag}
                                     ELSE @ \cup {tag}]
    /\ Noted("mutate")
    /\ UNCHANGED <<context, paramVars, tasks, flows, results, userFlows>>

\* The ambient tags become the collection c, or are unset.
SetTags(c) ==
    /\ context' = With(context, "_tags", c)
    /\ Noted("context")
    /\ UNCHANGED <<paramVars, tasks, flows, results, userFlows, colls>>

ClearTags ==
    /\ "_tags" \in DOMAIN context
    /\ context' = Without(context, "_tags")
    /\ Noted("context")
    /\ UNCHANGED <<paramVars, tasks, flows, results, userFlows, colls>>

\* The ambient group becomes g, or is unset.
SetGroup(g) ==
    /\ context' = With(context, "_group", g)
    /\ Noted("context")
    /\ UNCHANGED <<paramVars, tasks, flows, results, userFlows, colls>>

ClearGroup ==
    /\ "_group" \in DOMAIN context
    /\ context' = Without(context, "_group")
    /\ Noted("context")
    /\ UNCHANGED <<paramVars, tasks, flows, results, userFlows, colls>>

\* ------------------------------------------------------------- TaskResult

\* TaskResult(task, flow)
TaskResultInit(task, flow) ==
    \E r \in {TaskResult_init(flows, results, task, flow)} :
        /\ flows' = r.flows
        /\ results' = r.results
        /\ received' = NotReceived
        /\ last' = [flow |-> flow] @@
                   [Before("TaskResult", task) EXCEPT !.result = r.result]
        /\ UNCHANGED <<context, paramVars, tasks, userFlows, colls>>

\* The run signature of GetItem: run(self, task_result).
SigGetItem == <<Param("task_result", POSITIONAL_OR_KEYWORD, FALSE)>>

\* The indexes results are subscripted with, as str() prints them.
Indexes == {"0", "k"}

\* "{}[{}]".format(name, index)
format_name_parent_only(name, index) == name \o "[]"

format_name(name, index) == name \o "[" \o index \o "]"

\* GetItem(index=index, name=name): a Task that keeps the index.
GetItem_init(ts, fs, cs, index, name) ==
    LET t == Task_init(ts, fs, cs, "GetItem", name, SigGetItem, NoneVal, NoTags)
    IN  [t EXCEPT !.tasks[t.task] = [index |-> index] @@ @]

\* TaskResult.__getitem__(index) of the TaskResult r: the heaps afterwards,
\* the derived task and what its invocation returns.
TaskResult_getitem(ts, fs, cs, rs, r, index) ==
    LET g == GetItem_init(ts, fs, cs, index, format_name(ts[rs[r].task].name, index))
        c == Task_call(g.tasks, g.flows, rs, g.task, <<>>, {},
                       [k \in {"task_result"} |-> Res(r)])
    IN  [tasks |-> g.tasks, colls |-> g.colls, task |-> g.task] @@ c

\* result[index]
TaskResultGetItem(r, index) ==
    \E g \in {TaskResult_getitem(tasks, flows, colls, results, r, index)} :
        /\ tasks' = g.tasks
        /\ flows' = g.flows
        /\ colls' = g.colls
        /\ results' = g.results
        /\ received' = g.received
        /\ last' = [parent |-> r, index |-> index] @@
                   [Before("getitem", g.task) EXCEPT !.exc = g.exc,
                                                     !.result = g.result]
        /\ UNCHANGED <<context, paramVars, userFlows>>

\* TaskResult.set_dependencies(upstream_tasks, downstream_tasks,
\* keyword_results) of the TaskResult r; validate is left to the flow.
TaskResult_set_dependencies_as_task(fs, rs, r, upstream_tasks, downstream_tasks, keyword_results) ==
    Task_set_dependencies(fs, rs, rs[r].task, NoFlow, upstream_tasks,
                          downstream_tasks, keyword_results, "default")

TaskResult_set_dependencies(fs, rs, r, upstream_tasks, downstream_tasks, keyword_results) ==
    Flow_set_dependencies(fs, rs, rs[r].flow, rs[r].task, upstream_tasks,
                          downstream_tasks, keyword_results, "default")

\* result.set_dependencies(...): it returns None, so the TaskResult the flow
\* hands back is dropped.  The inputs are those whose edges Flow validation
\* accepts.
TaskResultSetDependencies(r, upstream_tasks, downstream_tasks, keyword_results) ==
    \E d \in {TaskResult_set_dependencies(flows, results, r, upstream_tasks,
                                          downstream_tasks, keyword_results)} :
        /\ ~Cyclic(d.flows[d.received.flow].edges)
        /\ flows' = d.flows
        /\ received' = d.received
        /\ last' = [r |-> r] @@ Before("result_set_dependencies", results[r].task)
        /\ UNCHANGED <<context, paramVars, tasks, results, userFlows, colls>>

EmptyContext == [k \in {} |-> EmptyMap]

Init ==
    /\ context = EmptyContext
    /\ params = [p \in PIds |-> NewParam]
    /\ pres = NoOp
    /\ tasks = <<>>
    /\ flows = <<>>
    /\ userFlows = 0
    /\ colls = <<>>
    /\ results = <<>>
    /\ received = NotReceived
    /\ last = NoOp

NextParam ==
    \/ \E p \in PIds, n \in Names, d \in Defaults, r \in BOOLEAN :
          ParameterInit(p, n, d, r)
    \/ \E p \in PIds, v \in Names \cup {"Parameter"} : NameAssign(p, v)
    \/ \E p \in PIds, v \in Names \cup {"Parameter"} : SlugAssign(p, v)
    \/ \E p \in PIds : ParameterRun(p)
    \/ \E ps \in Mappings(Names \ {""}, ParamValues) : SetParameters(ps)
    \/ ClearParameters

SpecParam == Init /\ [][NextParam]_vars


TaskIds == 1..Len(tasks)
FlowIds == 1..Len(flows)

\* The argument lists of the invocations whose binding is explored.
ArgLists == UNION {[1..n -> Literals] : n \in 0..MaxArgs}
KwArgs == Mappings(KwNames, Literals)

\* The first invocation of a task, with any of the argument lists, in a fresh
\* flow or in the ambient flow.
BindTasks == 1     \* tasks constructed, fewer than Len(TaskNames)
BindFlows == 1

NextBind ==
    \/ /\ Len(tasks) < BindTasks
       /\ \E sig \in Signatures : TaskInit(TaskNames[Len(tasks) + 1], sig, NoneVal, NoTags)
    \/ userFlows < BindFlows /\ NewFlow
    \/ \E f \in FlowIds : EnterFlow(f)
    \/ /\ results = <<>>
       /\ last.op /= "call"
       /\ \E t \in TaskIds, args \in ArgLists, kwargs \in KwArgs :
             CallTask(t, args, {}, kwargs)

SpecBind == Init /\ [][NextBind]_vars

\* Graph construction: tasks, flows, the ambient flow, invocations and
\* set_dependencies with a few argument shapes.
GraphSignatures == {SigAB}
GraphArgs == {<<>>, <<Lit("1")>>}
GraphKwArgs == {EmptyMap}
\* No task or one task.
AtMostOne(S) == {{}} \cup {{x} : x \in S}

Next ==
    \/ /\ Len(tasks) < Len(TaskNames)
       /\ \E sig \in GraphSignatures : TaskInit(TaskNames[Len(tasks) + 1], sig, NoneVal, NoTags)
    \/ NewFlow
    \/ \E f \in FlowIds : EnterFlow(f)
    \/ ExitFlow
    \/ /\ Len(results) < MaxResults
       /\ \E t \in TaskIds, args \in GraphArgs, up \in AtMostOne(TaskIds),
             kwargs \in GraphKwArgs :
             CallTask(t, args, up, kwargs)
    \/ /\ Len(results) < MaxResults
       /\ \E t \in TaskIds, f \in FlowIds \cup {NoFlow}, other \in TaskIds,
             dir \in {"upstream", "downstream", "neither"} :
             SetDependencies(t, f, IF dir = "upstream" THEN {other} ELSE {},
                             IF dir = "downstream" THEN {other} ELSE {}, EmptyMap)

Spec == Init /\ [][Next]_vars

ResultIds == 1..Len(results)

\* TaskResults constructed directly and given dependencies.
NextResult ==
    \/ /\ Len(tasks) < Len(TaskNames)
       /\ TaskInit(TaskNames[Len(tasks) + 1], SigNone, NoneVal, NoTags)
    \/ NewFlow
    \/ \E f \in FlowIds : EnterFlow(f)
    \/ ExitFlow
    \/ /\ Len(results) < OwnedResults
       /\ \E t \in TaskIds, f \in FlowIds \cup {NoFlow} : TaskResultInit(t, f)
    \/ \E r \in ResultIds, other \in TaskIds, dir \in {"upstream", "downstream"} :
          /\ Cardinality(flows[results[r].flow].edges) < MaxEdges
          /\ TaskResultSetDependencies(r,
                IF dir = "upstream" THEN {other} ELSE {},
                IF dir = "downstream" THEN {other} ELSE {}, EmptyMap)

SpecResult == Init /\ [][NextResult]_vars

\* TaskResults constructed directly and subscripted.
NextIndex ==
    \/ /\ Len(tasks) < IndexTasks
       /\ TaskInit(TaskNames[Len(tasks) + 1], SigNone, NoneVal, NoTags)
    \/ NewFlow
    \/ \E f \in FlowIds : EnterFlow(f)
    \/ ExitFlow
    \/ /\ Len(results) < MaxResults
       /\ \E t \in TaskIds, f \in FlowIds \cup {NoFlow} : TaskResultInit(t, f)
    \/ /\ Len(results) < MaxResults
       /\ \E r \in ResultIds, i \in Indexes : TaskResultGetItem(r, i)

SpecIndex == Init /\ [][NextIndex]_vars

CollIds == 1..Len(colls)

\* Tasks constructed with tags and a group while the caller's collections and
\* the ambient tags and group change.
NextTags ==
    \/ /\ Len(tasks) < TagTasks
       /\ \E group \in {NoneVal, "", "g"},
             tags \in {NoTags, OneTag("p")} \cup {TagsIn(c) : c \in CollIds} :
             TaskInit(TaskNames[Len(tasks) + 1], SigNone, group, tags)
    \/ NewTags
    \/ \E c \in CollIds, tag \in Tags : MutateTags(c, tag)
    \/ \E c \in CollIds : SetTags(c)
    \/ ClearTags
    \/ \E g \in Groups : SetGroup(g)
    \/ ClearGroup

SpecTags == Init /\ [][NextTags]_vars

\* Tasks and Parameters constructed inside and outside the caller's flows.
NextRegister ==
    \/ /\ Len(tasks) < Len(TaskNames)
       /\ TaskInit(TaskNames[Len(tasks) + 1], SigNone, NoneVal, NoTags)
    \/ \E p \in PIds, n \in Names : ParameterInit(p, n, NoneVal, TRUE)
    \/ NewFlow
    \/ \E f \in FlowIds : EnterFlow(f)
    \/ ExitFlow

SpecRegister == Init /\ [][NextRegister]_vars

\* ------------------------------------------------- properties of Parameter

\* The Parameter the last operation acted on.
LastParam == params[pres.p]

\* The ambient parameter values Parameter.run would read now.
AmbientParameters == context_get("_parameters", EmptyMap)

\* C2: every constructed Parameter reads the same value for slug as for name,
\* whatever name and slug assignments were attempted on it.
C2_SlugEqualsName ==
    \A p \in PIds :
        params[p].status = "ok" => slug_get(params[p]) = name_get(params[p])

C2_Witness ==
    /\ pres.op = "slug_set"
    /\ pres.exc = "AttributeError"
    /\ \E q \in PIds \ {pres.p} :
          /\ params[q].status = "ok"
          /\ name_get(params[q]) /= name_get(LastParam)

\* C3: the name assignment made during construction succeeds, and every later
\* assignment to name raises AttributeError and leaves the name as it was.
C3_NameWriteOnce ==
    /\ pres.op = "init" =>
          /\ LastParam.hasName
          /\ name_get(LastParam) =
                (IF Truthy(pres.name) THEN pres.name ELSE "Parameter")
    /\ pres.op = "name_set" =>
          /\ pres.exc = "AttributeError"
          /\ name_get(LastParam) = pres.nameBefore

C3_Witness ==
    /\ pres.op = "name_set"
    /\ pres.value = pres.nameBefore
    /\ pres.exc = "AttributeError"

\* C4: assigning slug a value other than the current name raises
\* AttributeError, assigning the current name succeeds, and neither name nor
\* slug changes in either case.
C4_SlugAssignment ==
    pres.op = "slug_set" =>
        /\ pres.value /= pres.nameBefore => pres.exc = "AttributeError"
        /\ pres.value = pres.nameBefore => pres.exc = NoExc
        /\ name_get(LastParam) = pres.nameBefore
        /\ slug_get(LastParam) = pres.slugBefore

C4_Witness ==
    /\ pres.op = "slug_set"
    /\ pres.value /= pres.nameBefore
    /\ pres.exc = "AttributeError"
    /\ name_get(LastParam) = pres.nameBefore

\* C8: run raises FAIL when the Parameter is required and its name is absent
\* from the ambient parameter values; otherwise it returns the value found
\* under its name, or the default when the name is absent.
C8_Run ==
    pres.op = "run" =>
        LET o == LastParam
            absent == name_get(o) \notin DOMAIN pres.ambient
        IN  /\ (o.required /\ absent) => pres.exc = "FAIL"
            /\ ~(o.required /\ absent) =>
                  /\ pres.exc = NoExc
                  /\ ~absent => pres.value = pres.ambient[name_get(o)]
                  /\ absent => pres.value = o.default

C8_Witness ==
    /\ pres.op = "run"
    /\ ~LastParam.required
    /\ name_get(LastParam) \notin DOMAIN pres.ambient
    /\ pres.ambient /= EmptyMap
    /\ pres.exc = NoExc
    /\ pres.value = LastParam.default

\* C9: a Parameter constructed with required=True is required whatever its
\* default: evaluated with its name absent from the ambient parameter values
\* it raises FAIL instead of returning the default.
C9_RequiredIgnoresDefault ==
    (pres.op = "init" /\ pres.exc = NoExc /\ pres.required) =>
        /\ LastParam.required
        /\ name_get(LastParam) \notin DOMAIN AmbientParameters =>
              Parameter_run(LastParam).exc = "FAIL"

\* C10: a Parameter constructed with a default other than None is not
\* required whatever required argument was passed; constructed with default
\* None its required flag is the argument passed.
C10_RequiredFlag ==
    pres.op = "init" =>
        /\ pres.default /= NoneVal => LastParam.required = FALSE
        /\ pres.default = NoneVal => LastParam.required = pres.required

C10_Witness ==
    /\ pres.op = "init"
    /\ pres.exc = NoExc
    /\ pres.default = ""
    /\ pres.required
    /\ ~LastParam.required

\* C14: constructing a Parameter with any name, the empty string included,
\* succeeds and gives a Parameter whose name and slug are that name.
C14_ConstructionKeepsName ==
    pres.op = "init" =>
        /\ pres.exc = NoExc
        /\ LastParam.status = "ok"
        /\ name_get(LastParam) = pres.name
        /\ slug_get(LastParam) = pres.name

\* ------------------------------------------------ properties of invocation

\* The signature of the task the last operation was about.
LastSig == tasks[last.task].run

\* The names of the declared (non-variadic) parameters of a signature.
Declared(sig) == {sig[i].name : i \in OfKind(sig, POSITIONAL_OR_KEYWORD)}

\* C1: for a run function with a variadic-keyword parameter, the
\* keyword_results passed to the flow hold every extra keyword under its own
\* name with its value untouched, and no key named after the variadic
\* parameter.
C1_OverflowFlattened ==
    (last.op = "call" /\ last.exc = NoExc /\ OfKind(LastSig, VAR_KEYWORD) /= {}) =>
        LET kr == received.keyword_results
            overflow == DOMAIN last.kwargs \ Declared(LastSig)
        IN  /\ \A k \in overflow : k \in DOMAIN kr /\ kr[k] = last.kwargs[k]
            /\ \A i \in OfKind(LastSig, VAR_KEYWORD) : LastSig[i].name \notin DOMAIN kr

\* C7: an invocation with a missing required parameter, with an unknown
\* keyword or with too many positional values raises TypeError and reaches no
\* flow; one that binds passes every declared parameter that was supplied
\* under its name with the value supplied, and no parameter left to its
\* default.
C7_Binding ==
    last.op = "call" =>
        LET sig == LastSig
            pos == OfKind(sig, POSITIONAL_OR_KEYWORD)
            supplied(i) == i <= Len(last.args) \/ sig[i].name \in DOMAIN last.kwargs
            missing == \E i \in pos : ~sig[i].hasDefault /\ ~supplied(i)
            unknown == /\ OfKind(sig, VAR_KEYWORD) = {}
                       /\ DOMAIN last.kwargs \ Declared(sig) /= {}
            tooMany == Len(last.args) > Cardinality(pos)
        IN  /\ (missing \/ unknown \/ tooMany) => last.exc = "TypeError"
            /\ last.exc /= NoExc => received = NotReceived
            /\ last.exc = NoExc =>
                  LET kr == received.keyword_results
                  IN  /\ \A i \in pos :
                            /\ i <= Len(last.args) =>
                                  /\ sig[i].name \in DOMAIN kr
                                  /\ kr[sig[i].name] = last.args[i]
                            /\ (i > Len(last.args) /\ supplied(i)) =>
                                  /\ sig[i].name \in DOMAIN kr
                                  /\ kr[sig[i].name] = last.kwargs[sig[i].name]
                            /\ ~supplied(i) => sig[i].name \notin DOMAIN kr
                      /\ OfKind(sig, VAR_KEYWORD) = {} =>
                            DOMAIN kr \subseteq Declared(sig)

C7_Witness ==
    /\ last.op = "call"
    /\ LastSig = SigAB
    /\ last.args = <<Lit("1")>>
    /\ DOMAIN last.kwargs = {"b"}
    /\ last.exc = NoExc
    /\ received.keyword_results = [k \in {"a", "b"} |->
                                     IF k = "a" THEN Lit("1") ELSE last.kwargs["b"]]

\* C5: every invocation that binds returns a new TaskResult, in the ambient
\* flow when there is one, and the task invoked is in that flow's nodes once;
\* no flow ever holds a task more than once.
C5_IdempotentRegistration ==
    /\ \A f \in FlowIds : \A t \in TaskIds : CopiesIn(t, flows[f].tasks) <= 1
    /\ (last.op = "call" /\ last.exc = NoExc) =>
          /\ last.result = last.resultsBefore + 1
          /\ last.result = Len(results)
          /\ results[last.result].task = last.task
          /\ last.ambient /= NoFlow => results[last.result].flow = last.ambient
          /\ CopiesIn(last.task, flows[results[last.result].flow].tasks) = 1

C5_Witness ==
    /\ last.op = "call"
    /\ last.exc = NoExc
    /\ last.ambient /= NoFlow
    /\ \E i \in 1..(last.result - 1) : results[i] = results[last.result]

\* C6: the flow that receives the edges is the flow given explicitly,
\* otherwise the ambient flow, otherwise a new flow that holds nothing but
\* what this operation put there; set_dependencies never fails and an
\* invocation fails only when its arguments do not bind.
C6_FlowResolution ==
    last.op \in {"call", "set_dependencies"} =>
        LET explicit == IF last.op = "set_dependencies" THEN last.flow ELSE NoFlow
        IN  /\ last.op = "set_dependencies" => last.exc = NoExc
            /\ last.exc /= NoExc =>
                  bind(LastSig, last.args, last.kwargs).exc = last.exc
            /\ last.exc = NoExc =>
                  /\ results[last.result].flow = received.flow
                  /\ explicit /= NoFlow =>
                        /\ received.flow = explicit
                        /\ Len(flows) = last.flowsBefore
                  /\ (explicit = NoFlow /\ last.ambient /= NoFlow) =>
                        /\ received.flow = last.ambient
                        /\ Len(flows) = last.flowsBefore
                  /\ (explicit = NoFlow /\ last.ambient = NoFlow) =>
                        /\ received.flow = last.flowsBefore + 1
                        /\ Len(flows) = last.flowsBefore + 1
                        /\ BagToSet(flows[received.flow].tasks) =
                              {received.task} \cup received.upstream_tasks
                                 \cup received.downstream_tasks
                        /\ flows[received.flow].edges =
                              NewEdges(results, received.task,
                                       received.upstream_tasks,
                                       received.downstream_tasks,
                                       received.keyword_results)

C6_Witness ==
    /\ last.op = "set_dependencies"
    /\ last.exc = NoExc
    /\ last.flow /= NoFlow
    /\ last.ambient /= NoFlow
    /\ last.flow /= last.ambient
    /\ received.flow = last.flow
    /\ flows[received.flow].edges /= {}

\* ------------------------------------------------ properties of TaskResult

\* C11: result[index] constructs one new GetItem task named
\* "<parent name>[<index>]", invokes it with task_result=result, and returns
\* a new TaskResult for the derived task; the flow that receives the
\* invocation holds the edge from result.task to the derived task.
C11_IndexAccess ==
    last.op = "getitem" =>
        LET parent == results[last.parent].task
            derived == last.task
        IN  /\ last.exc = NoExc
            /\ derived = Len(tasks)
            /\ derived /= parent
            /\ tasks[derived].name =
                  tasks[parent].name \o "[" \o last.index \o "]"
            /\ tasks[derived].index = last.index
            /\ received.task = derived
            /\ received.upstream_tasks = {}
            /\ DOMAIN received.keyword_results = {"task_result"}
            /\ received.keyword_results["task_result"] = Res(last.parent)
            /\ last.result = last.resultsBefore + 1
            /\ last.result = Len(results)
            /\ results[last.result].task = derived
            /\ results[last.result].flow = received.flow
            /\ Edge(parent, derived, "task_result") \in
                  flows[received.flow].edges
            /\ BagIn(parent, flows[received.flow].tasks)
            /\ BagIn(derived, flows[received.flow].tasks)

\* A result subscripted inside an ambient flow.
C11_Witness ==
    /\ last.op = "getitem"
    /\ last.exc = NoExc
    /\ last.index = "k"
    /\ tasks[last.task].name = "A[k]"
    /\ last.ambient /= NoFlow
    /\ results[last.result].task /= results[last.parent].task
    /\ Cardinality(flows[received.flow].edges) = 1

\* -------------------------------------------- properties of construction

\* C12: constructing a task (a Task or a Parameter, which is a Task) when
\* there is an ambient flow, even one that holds nothing yet, puts the task in
\* that flow's nodes and changes no other flow; constructing a task when there
\* is no ambient flow changes no flow.  A construction that raises constructs
\* no task and changes no flow.
C12_AmbientRegistration ==
    [][/\ (last'.op = "Task" /\ tasks' /= tasks) =>
             /\ Len(tasks') = Len(tasks) + 1
             /\ last'.task = Len(tasks')
             /\ Len(flows') = Len(flows)
             /\ \A f \in FlowIds :
                   IF "_flow" \in DOMAIN context /\ f = context["_flow"]
                   THEN /\ CopiesIn(last'.task, flows'[f].tasks) = 1
                        /\ flows'[f].edges = flows[f].edges
                        /\ \A t \in BagToSet(flows[f].tasks) :
                              CopiesIn(t, flows'[f].tasks) = CopiesIn(t, flows[f].tasks)
                   ELSE flows'[f] = flows[f]
             /\ "_flow" \notin DOMAIN context =>
                   \A f \in FlowIds : ~BagIn(last'.task, flows'[f].tasks)
       /\ (pres'.op = "init" /\ params' /= params) =>
             /\ Len(flows') = Len(flows)
             /\ \A f \in FlowIds :
                   IF /\ pres'.exc = NoExc
                      /\ "_flow" \in DOMAIN context
                      /\ f = context["_flow"]
                   THEN /\ CopiesIn(ParamNode(pres'.p), flows'[f].tasks) = 1
                        /\ flows'[f].edges = flows[f].edges
                        /\ \A t \in BagToSet(flows[f].tasks) :
                              CopiesIn(t, flows'[f].tasks) = CopiesIn(t, flows[f].tasks)
                   ELSE flows'[f] = flows[f]
             /\ "_flow" \notin DOMAIN context =>
                   \A f \in FlowIds : ~BagIn(ParamNode(pres'.p), flows'[f].tasks)]_vars

\* A task constructed in an ambient flow that held nothing until then, after
\* a Parameter constructed outside every flow.
C12_Witness ==
    /\ last.op = "Task"
    /\ "_flow" \in DOMAIN context
    /\ flows[context["_flow"]] = [tasks |-> SetToBag({last.task}), edges |-> {}]
    /\ last.task = 2
    /\ \E p \in PIds : params[p].status = "ok"

\* C13: a task's tags are the union of the explicit tags and the ambient tags
\* as they are when it is constructed, its group is the explicit group or
\* else the ambient group as it is then, and no later step (a change of the
\* ambient tags or group, a mutation of the ambient collection or of the
\* collection the caller passed) changes the tags or group of the task.
C13_TagsGroupSnapshot ==
    [][/\ \A t \in TaskIds :
             /\ tags_get(colls', tasks'[t]) = tags_get(colls, tasks[t])
             /\ tasks'[t].group = tasks[t].group
       /\ (last'.op = "Task" /\ tasks' /= tasks) =>
             LET t == tasks'[Len(tasks')]
                 given == last'.tags
                 explicit == IF given.kind = "str" THEN {given.tag}
                             ELSE IF given.kind = "coll" THEN colls[given.ref]
                             ELSE {}
                 ambient == IF "_tags" \in DOMAIN context
                            THEN colls[context["_tags"]] ELSE {}
             IN  /\ tags_get(colls', t) = explicit \cup ambient
                 /\ colls' = colls
                 /\ t.group = IF last'.group \in {NoneVal, ""}
                              THEN (IF "_group" \in DOMAIN context
                                    THEN context["_group"] ELSE "")
                              ELSE last'.group]_vars

\* A task that keeps both tags and its group after the collection it was
\* given and the ambient collection were emptied and the ambient group changed.
C13_Witness ==
    /\ last.op = "mutate"
    /\ Len(tasks) = 1
    /\ tags_get(colls, tasks[1]) = {"p", "q"}
    /\ Len(colls) = 2
    /\ colls[1] = {}
    /\ colls[2] = {}
    /\ "_tags" \in DOMAIN context
    /\ tasks[1].group = "h"
    /\ context_get("_group", "") = "g"

\* C15: the task of every TaskResult is in the nodes of the TaskResult's one
\* flow, once; TaskResult(task, flow) registers the task in the flow given,
\* which may hold it already, or in a new flow when none is given.
C15_ResultTaskInFlow ==
    /\ \A r \in ResultIds :
          /\ results[r].flow \in FlowIds
          /\ results[r].task \in TaskIds
          /\ CopiesIn(results[r].task, flows[results[r].flow].tasks) = 1
    /\ last.op = "TaskResult" =>
          /\ last.exc = NoExc
          /\ last.result = last.resultsBefore + 1
          /\ last.result = Len(results)
          /\ results[last.result].task = last.task
          /\ IF last.flow = NoFlow
             THEN /\ Len(flows) = last.flowsBefore + 1
                  /\ results[last.result].flow = Len(flows)
                  /\ flows[Len(flows)] =
                        [tasks |-> SetToBag({last.task}), edges |-> {}]
             ELSE /\ Len(flows) = last.flowsBefore
                  /\ results[last.result].flow = last.flow

\* A second TaskResult for a task in the flow that holds it already.
C15_Witness ==
    /\ last.op = "TaskResult"
    /\ last.flow /= NoFlow
    /\ last.ambient = NoFlow
    /\ \E r \in 1..(last.result - 1) : results[r] = results[last.result]

\* C16: result.set_dependencies hands the TaskResult's own task to the
\* TaskResult's own flow: the edges are added to that flow, and the ambient
\* flow (when it is another flow), every other flow, the tasks, the
\* TaskResults and the context stay as they were.
C16_OwnFlowOnly ==
    [][last'.op = "result_set_dependencies" =>
          LET own == results[last'.r].flow
          IN  /\ received'.flow = own
              /\ received'.task = results[last'.r].task
              /\ Len(flows') = Len(flows)
              /\ \A f \in FlowIds \ {own} : flows'[f] = flows[f]
              /\ flows'[own].edges =
                    flows[own].edges \cup
                    NewEdges(results, results[last'.r].task,
                             received'.upstream_tasks,
                             received'.downstream_tasks,
                             received'.keyword_results)
              /\ results' = results
              /\ tasks' = tasks
              /\ context' = context]_vars

\* Dependencies given to a TaskResult of one flow inside another, ambient flow.
C16_Witness ==
    /\ last.op = "result_set_dependencies"
    /\ last.ambient /= NoFlow
    /\ last.ambient /= results[last.r].flow
    /\ flows[results[last.r].flow].edges /= {}
    /\ flows[last.ambient].edges = {}
    /\ received.flow = results[last.r].flow

\* C17: the TaskResult that result[index] returns is owned by the flow that
\* owns result, and the edge from result.task to the derived task is in that
\* flow, whether there is an ambient flow or not and whichever flow it is.
C17_IndexInParentFlow ==
    (last.op = "getitem" /\ last.exc = NoExc) =>
        LET own == results[last.parent].flow
        IN  /\ results[last.result].flow = own
            /\ received.flow = own
            /\ Edge(results[last.parent].task, last.task, "task_result") \in
                  flows[own].edges

\* C18: an invocation whose arguments do not bind raises the binding error
\* and leaves every flow (nodes and edges), the set of flows, the context,
\* the tasks and the TaskResults as they were; no TaskResult is produced and
\* Flow.set_dependencies is not called.
C18_BindFailureTouchesNothing ==
    [][(/\ last'.op = "call"
        /\ bind(tasks[last'.task].run, last'.args, last'.kwargs).exc /= NoExc) =>
          /\ last'.exc = "TypeError"
          /\ last'.result = 0
          /\ received' = NotReceived
          /\ flows' = flows
          /\ results' = results
          /\ context' = context
          /\ tasks' = tasks]_vars

\* A failed invocation outside any flow, with a flow the caller built around.
C18_Witness ==
    /\ last.op = "call"
    /\ last.exc = "TypeError"
    /\ last.ambient = NoFlow
    /\ Len(last.args) = 1
    /\ DOMAIN last.kwargs /= {}
    /\ Len(flows) = 1
    /\ results = <<>>

=============================================================================
